---- MODULE Spec2Model ----
(***************************************************************************)
(* Model of the OTP verification server: the Express application of        *)
(* server/index.js, the middleware of server/middleware/otp-middleware.js  *)
(* (req.sendOtp, req.verifyOtp, req.cleanupExpiredOtps, the /send, /verify *)
(* and /cleanup routes, rateLimitMiddleware) and the helpers of            *)
(* lib/utils.js (generateOTP, validateEmail, validateOTP, checkRateLimit). *)
(*                                                                         *)
(* JavaScript strings are sequences of one-character strings; a request    *)
(* body field is a tagged value (a string or undefined).  A Map is a       *)
(* function whose DOMAIN is the set of keys present.  One action is one    *)
(* run-to-completion turn of the Node event loop: a synchronous handler is *)
(* one step, req.sendOtp is split at its only await (transporter.sendMail).*)
(***************************************************************************)
EXTENDS Integers, Sequences, FiniteSets, TLC

(* ------------------------------------------------------------------ *)
(* Bounds of the model                                                  *)
(* ------------------------------------------------------------------ *)
\* the clock advances in steps of ClockStep milliseconds
ClockStep == 300000
\* number of clock steps explored where the limiter windows are exercised
MaxTicks == 4
\* number of clock steps explored where codes are issued and verified
StoreTicks == 3
\* number of issuance requests that may be awaiting their mail dispatch
MaxPending == 2
\* largest length for which generateOTP is called with every draw
MaxOtpLength == 2
TwoAddressTicks == 2

(* ------------------------------------------------------------------ *)
(* JavaScript values                                                    *)
(* ------------------------------------------------------------------ *)
Str(s) == [t |-> "string", v |-> s]
Undefined == [t |-> "undefined", v |-> <<>>]
Null == [t |-> "null", v |-> <<>>]
\* a number, by its decimal digits
Num(digits) == [t |-> "number", v |-> digits]

\* !x: the empty string, 0, undefined and null are falsy
Falsy(x) ==
  CASE x.t = "string" -> x.v = <<>>
    [] x.t = "number" -> x.v = <<"0">>
    [] OTHER -> TRUE

\* x.trim() throws a TypeError: x.trim is not a function (or x is nullish)
TrimThrows(x) == x.t # "string"

Whitespace == {" ", "\t", "\n"}
Digits == <<"0", "1", "2", "3", "4", "5", "6", "7", "8", "9">>
DigitChars == {Digits[i] : i \in 1..10}

RECURSIVE TrimLeft(_)
TrimLeft(s) ==
  IF s # <<>> /\ Head(s) \in Whitespace THEN TrimLeft(Tail(s)) ELSE s

RECURSIVE TrimRight(_)
TrimRight(s) ==
  IF s # <<>> /\ s[Len(s)] \in Whitespace
  THEN TrimRight(SubSeq(s, 1, Len(s) - 1)) ELSE s

\* String.prototype.trim
Trim(s) == TrimRight(TrimLeft(s))

\* Number.prototype.toString for a non-negative integer
RECURSIVE NumToString(_)
NumToString(n) ==
  IF n < 10 THEN <<Digits[n + 1]>>
  ELSE Append(NumToString(n \div 10), Digits[(n % 10) + 1])

RECURSIVE Pow10(_)
Pow10(e) == IF e <= 0 THEN 1 ELSE 10 * Pow10(e - 1)

\* Math.ceil(a / b) for a >= 0, b > 0
CeilDiv(a, b) == (a + b - 1) \div b

(* ------------------------------------------------------------------ *)
(* lib/types.js                                                         *)
(* ------------------------------------------------------------------ *)
\* VALIDATION.email = /^[^\s@]+@[^\s@]+\.[^\s@]+$/
EmailPattern(s) ==
  \E i \in 1..Len(s) : \E j \in 1..Len(s) :
    /\ s[i] = "@"
    /\ s[j] = "."
    /\ 1 < i /\ i + 1 < j /\ j < Len(s)
    /\ \A k \in 1..Len(s) : s[k] \notin Whitespace /\ (s[k] = "@" => k = i)

INVALID_EMAIL == "Please enter a valid email address"
INVALID_OTP == "Please enter a valid 6-digit OTP"
EMAIL_REQUIRED == "Email is required"
OTP_REQUIRED == "OTP is required"

(* ------------------------------------------------------------------ *)
(* lib/utils.js                                                         *)
(* ------------------------------------------------------------------ *)
\* a message is a text and, for the rate limit message, the minutes in it
Msg(text) == [text |-> text, minutes |-> 0]
TooManyAttempts(m) ==
  [text |-> "Too many attempts. Try again after ${} minutes.", minutes |-> m]

createResponse(success, message, data) ==
  [success |-> success, message |-> message, data |-> data]

\* a smallest value of no digits at all
MinOfLengthZero(length) == 0

\* const min = Math.pow(10, length - 1)
MinOfLength(length) == Pow10(length - 1)

\* a largest value of one digit more
MaxOfLengthNext(length) == Pow10(length)

\* const max = Math.pow(10, length) - 1
MaxOfLength(length) == Pow10(length) - 1

\* a Math.random that never comes near 1
AllDrawsButLast(length) == 0..(MaxOfLength(length) - MinOfLength(length) - 1)

\* the values of Math.random() * (max - min + 1), rounded down:
\* Math.random() is in [0, 1)
AllDraws(length) == 0..(MaxOfLength(length) - MinOfLength(length))

\* generateOTP(length); draw is Math.floor(Math.random() * (max - min + 1))
generateOTP(length, draw) == NumToString(draw + MinOfLength(length))

\* the draws of Math.random explored for a range of (max - min + 1) values
RandomDraws(length) == {0, MaxOfLength(length) - MinOfLength(length)}

\* threw: the call ended in an exception instead of a result
validateEmail(email) ==
  IF Falsy(email)
  THEN [isValid |-> FALSE, error |-> Msg(EMAIL_REQUIRED), threw |-> FALSE]
  ELSE IF TrimThrows(email)
  THEN [isValid |-> FALSE, error |-> Msg(""), threw |-> TRUE]
  ELSE IF Trim(email.v) = <<>>
  THEN [isValid |-> FALSE, error |-> Msg(EMAIL_REQUIRED), threw |-> FALSE]
  ELSE IF ~EmailPattern(Trim(email.v))
  THEN [isValid |-> FALSE, error |-> Msg(INVALID_EMAIL), threw |-> FALSE]
  ELSE [isValid |-> TRUE, error |-> Msg(""), threw |-> FALSE]

validateOTP(otp, expectedLength) ==
  IF Falsy(otp)
  THEN [isValid |-> FALSE, error |-> Msg(OTP_REQUIRED), threw |-> FALSE]
  ELSE IF TrimThrows(otp)
  THEN [isValid |-> FALSE, error |-> Msg(""), threw |-> TRUE]
  ELSE IF Trim(otp.v) = <<>>
  THEN [isValid |-> FALSE, error |-> Msg(OTP_REQUIRED), threw |-> FALSE]
  ELSE IF ~(/\ Len(Trim(otp.v)) = expectedLength
            /\ \A i \in 1..Len(Trim(otp.v)) : Trim(otp.v)[i] \in DigitChars)
  THEN [isValid |-> FALSE, error |-> Msg(INVALID_OTP), threw |-> FALSE]
  ELSE [isValid |-> TRUE, error |-> Msg(""), threw |-> FALSE]

\* String.prototype.toLowerCase, for the capital letters of the inputs
UpperCase == <<"A", "B", "C">>
LowerCase == <<"a", "b", "c">>
ToLowerCase(s) ==
  [i \in 1..Len(s) |->
     IF \E j \in 1..Len(UpperCase) : UpperCase[j] = s[i]
     THEN LowerCase[CHOOSE j \in 1..Len(UpperCase) : UpperCase[j] = s[i]]
     ELSE s[i]]

\* email ? email.toString().trim().toLowerCase() : ''
sanitizeEmail(email) ==
  IF Falsy(email) THEN Str(<<>>) ELSE Str(ToLowerCase(Trim(email.v)))

\* Map.prototype.set / delete
MapSet(m, k, v) == [x \in DOMAIN m \cup {k} |-> IF x = k THEN v ELSE m[x]]
MapDelete(m, k) == [x \in DOMAIN m \ {k} |-> m[x]]

\* a window a third as long as configured
ResetTimeShort(t, windowMs) == t + windowMs \div 3

\* now + windowMs
ResetTimeFrom(t, windowMs) == t + windowMs

\* a window restarted with the attempts counted so far
RestartedKeepingAttempts(record, t, windowMs) ==
  [attempts |-> record.attempts, resetTime |-> t + windowMs]

\* record.attempts = 0; record.resetTime = now + windowMs
Restarted(record, t, windowMs) ==
  [attempts |-> 0, resetTime |-> ResetTimeFrom(t, windowMs)]

\* a limit that is reached one attempt late
LimitExceeded(attempts, maxAttempts) == attempts > maxAttempts

\* record.attempts >= maxAttempts
LimitReached(attempts, maxAttempts) == attempts >= maxAttempts

\* a denied call that starts the window of its key again
AfterDeniedPostponed(store, key, t, windowMs) ==
  IF key \in DOMAIN store
  THEN [store EXCEPT ![key].resetTime = t + windowMs]
  ELSE store

\* the denied branch returns without store.set and without touching the
\* record
AfterDenied(store, key, t, windowMs) == store

\* a message that reports the time of the reset, not the time left
MinutesOfReset(resetTime, t) == CeilDiv(resetTime, 60000)

\* Math.ceil((record.resetTime - now) / 1000 / 60)
RemainingMinutes(resetTime, t) == CeilDiv(resetTime - t, 60000)

\* a window that is already over at resetTime
WindowElapsedAtReset(t, resetTime) == t >= resetTime

\* now > record.resetTime
WindowElapsed(t, resetTime) == t > resetTime

\* checkRateLimit(store, key, maxAttempts, windowMs) at Date.now() = t:
\* the result object and the store after the call
checkRateLimit(store, key, maxAttempts, windowMs, t) ==
  LET found == IF key \in DOMAIN store THEN store[key]
               ELSE [attempts |-> 0, resetTime |-> ResetTimeFrom(t, windowMs)]
      record == IF WindowElapsed(t, found.resetTime)
                THEN Restarted(found, t, windowMs)
                ELSE found
      \* the reset is written into the stored object itself
      touched == IF key \in DOMAIN store THEN MapSet(store, key, record)
                 ELSE store
  IN  IF LimitReached(record.attempts, maxAttempts)
      THEN [allowed |-> FALSE,
            resetTime |-> record.resetTime,
            error |-> TooManyAttempts(RemainingMinutes(record.resetTime, t)),
            store |-> AfterDenied(touched, key, t, windowMs)]
      ELSE [allowed |-> TRUE,
            resetTime |-> record.resetTime,
            error |-> Msg(""),
            store |-> MapSet(store, key,
                        [attempts |-> record.attempts + 1,
                         resetTime |-> record.resetTime])]

(* ------------------------------------------------------------------ *)
(* Configuration                                                        *)
(* ------------------------------------------------------------------ *)
\* { ...a, ...b }
Spread(a, b) ==
  [k \in DOMAIN a \cup DOMAIN b |-> IF k \in DOMAIN b THEN b[k] ELSE a[k]]

\* lib/types.js DEFAULT_CONFIG (the fields the middleware reads)
DEFAULT_CONFIG == [otpLength |-> 6, expiryMinutes |-> 5]

\* server/index.js: the options handed to createOtpRoutes;
\* development is process.env.NODE_ENV === 'development'
ServerOptions(development) ==
  [otpLength |-> 6, expiryMinutes |-> 5, enableCleanupRoute |-> development]

\* server/index.js: the options of the two rateLimitMiddleware mounts
SentotpLimit == [maxAttempts |-> 5, windowMs |-> 15 * 60 * 1000]
VerifyotpLimit == [maxAttempts |-> 10, windowMs |-> 15 * 60 * 1000]

\* INTEGRATION.md: createOtpRoutes({ ..., rateLimit: { maxAttempts: 5,
\* windowMs: 15 * 60 * 1000 } }), the option that turns on the limiter of
\* req.sendOtp
LimitedOptions == [rateLimit |-> [maxAttempts |-> 5, windowMs |-> 15 * 60 * 1000]]

(* ------------------------------------------------------------------ *)
(* Inputs                                                               *)
(* ------------------------------------------------------------------ *)
\* req.ip of the clients
Clients == {"10.0.0.1"}
\* two clients, where one limiter is called for several keys
TwoClients == Clients \cup {"10.0.0.2"}

EmailA == Str(<<"a", "@", "b", ".", "c">>)
EmailBad == Str(<<"a", "b">>)
\* a second address, for stores of two entries
EmailB == Str(<<"x", "@", "y", ".", "z">>)
\* req.body.email
EmailInputs == {EmailA, EmailBad, Undefined}

\* req.body.otp: the codes generateOTP can draw, a short one, none
OtpInputs ==
  {Str(generateOTP(DEFAULT_CONFIG.otpLength, d)) :
      d \in RandomDraws(DEFAULT_CONFIG.otpLength)}
  \cup {Str(<<"1", "2", "3">>), Undefined}

(* ------------------------------------------------------------------ *)
(* State                                                                *)
(* ------------------------------------------------------------------ *)
VARIABLES
  now,            \* Date.now()
  config,         \* otpMiddleware: config = { ...DEFAULT_CONFIG, ...options }
  otpStore,       \* otpMiddleware: otpStore, email -> {otp, expireAt}
  rateLimitStore, \* otpMiddleware: rateLimitStore, email -> {attempts, resetTime}
  sentotpStore,   \* rateLimitStore of the limiter mounted on /sentotp
  verifyotpStore, \* rateLimitStore of the limiter mounted on /verifyotp
  pending,        \* req.sendOtp calls suspended at await transporter.sendMail
  last,           \* the request handled last and the response it received
  issued,         \* history: per email the last otpStore.set, the code it
                  \* replaced and the successful verifications since
  admitted,       \* history: per mounted limiter and key the start of the
                  \* current window and the calls allowed in it
  sample,         \* the last direct call of generateOTP: its length, the
                  \* draw of Math.random and the string returned
  admitLog        \* history: per email the times, no older than one window,
                  \* at which the limiter of req.sendOtp allowed a call,
                  \* and how many calls it allowed at each

vars == <<now, config, otpStore, rateLimitStore, sentotpStore, verifyotpStore,
          pending, last, issued, admitted, sample, admitLog>>

EmptyMap == [x \in {} |-> 0]

\* status 0: no response written yet
Event(op, ip, email, otp, status, body) ==
  [op |-> op, ip |-> ip, email |-> email, otp |-> otp,
   status |-> status, body |-> body]

NoBody == createResponse(FALSE, Msg(""), Null)

Init ==
  /\ now = 0
  /\ config \in {Spread(DEFAULT_CONFIG, ServerOptions(d)) : d \in BOOLEAN}
  /\ otpStore = EmptyMap
  /\ rateLimitStore = EmptyMap
  /\ sentotpStore = EmptyMap
  /\ verifyotpStore = EmptyMap
  /\ pending = <<>>
  /\ last = Event("none", "", Undefined, Undefined, 0, NoBody)
  /\ issued = EmptyMap
  /\ admitted = [sentotp |-> EmptyMap, verifyotp |-> EmptyMap]
  /\ sample = [length |-> 0, draw |-> 0, code |-> <<>>]
  /\ admitLog = EmptyMap

(* ------------------------------------------------------------------ *)
(* server/middleware/otp-middleware.js                                  *)
(* ------------------------------------------------------------------ *)
SEND_FAILED_MSG == "Failed to send OTP. Please try again later."
VERIFY_FAILED_MSG == "Failed to verify OTP. Please try again."

\* a catch block that lets the exception out of the function
Rethrown(message) == [threw |-> TRUE, body |-> NoBody]

\* catch (error) { console.error(...); return createResponse(false, message) }
Caught(message) ==
  [threw |-> FALSE, body |-> createResponse(FALSE, Msg(message), Null)]

ExpiryMs(cfg) == cfg.expiryMinutes * 60 * 1000

\* an issuance that keeps the entry an address already has
StoreAfterIssueKeepingOld(store, email, entry) ==
  IF email \in DOMAIN store THEN store ELSE MapSet(store, email, entry)

\* a failed dispatch that takes the entry of the address back
StoreAfterDispatchRolledBack(store, email, delivered) ==
  IF delivered THEN store ELSE MapDelete(store, email)

\* an issuance that has not written the entry when the dispatch starts
StoreAfterIssueDeferred(store, email, entry) == store

\* otpStore.set(email, { otp, expireAt })
StoreAfterIssue(store, email, entry) == MapSet(store, email, entry)

\* a delivered mail that restarts the expiry of the entry in place
StoreAfterDispatchExtended(store, email, delivered) ==
  IF delivered /\ email \in DOMAIN store
  THEN MapSet(store, email, [otp |-> store[email].otp,
                             expireAt |-> store[email].expireAt + 1])
  ELSE store

\* the store when transporter.sendMail has settled: the rest of req.sendOtp
\* and the catch block build a response and leave the store alone
StoreAfterDispatch(store, email, delivered) == store

\* req.sendOtp(email) up to await transporter.sendMail, at Date.now() = t.
\* returned: TRUE when the call returned a response without reaching the
\* await; otherwise otp is the code handed to the mail.
sendOtpStart(cfg, store, limits, email, draw, t) ==
  LET emailValidation == validateEmail(email)
      rateLimitResult ==
        checkRateLimit(limits, email, cfg.rateLimit.maxAttempts,
                       cfg.rateLimit.windowMs, t)
      otp == generateOTP(cfg.otpLength, draw)
      expireAt == t + ExpiryMs(cfg)
  IN  IF emailValidation.threw
      THEN [returned |-> TRUE, threw |-> Caught(SEND_FAILED_MSG).threw,
            body |-> Caught(SEND_FAILED_MSG).body,
            otp |-> <<>>, otpStore |-> store, rateLimitStore |-> limits]
      ELSE IF ~emailValidation.isValid
      THEN [returned |-> TRUE, threw |-> FALSE,
            body |-> createResponse(FALSE, emailValidation.error, Null),
            otp |-> <<>>, otpStore |-> store, rateLimitStore |-> limits]
      ELSE IF "rateLimit" \in DOMAIN cfg /\ ~rateLimitResult.allowed
      THEN [returned |-> TRUE, threw |-> FALSE,
            body |-> createResponse(FALSE, rateLimitResult.error, Null),
            otp |-> <<>>, otpStore |-> store,
            rateLimitStore |-> rateLimitResult.store]
      ELSE [returned |-> FALSE, threw |-> FALSE,
            body |-> createResponse(FALSE, Msg(""), Null),
            otp |-> otp,
            otpStore |-> StoreAfterIssue(store, email,
                                         [otp |-> otp, expireAt |-> expireAt]),
            rateLimitStore |-> IF "rateLimit" \in DOMAIN cfg
                               THEN rateLimitResult.store ELSE limits]

\* req.sendOtp(email) from the settling of transporter.sendMail on
sendOtpFinish(email, delivered) ==
  IF delivered
  THEN [threw |-> FALSE,
        body |-> createResponse(TRUE, Msg("OTP sent successfully!"), email)]
  ELSE Caught(SEND_FAILED_MSG)

NOT_FOUND_MSG == "OTP not found for this email. Please request a new OTP."
EXPIRED_MSG == "OTP has expired. Please request a new OTP."
MISMATCH_MSG == "Invalid OTP. Please try again."
VERIFIED_MSG == "OTP verified successfully!"

\* an expired entry that is left in the store
StoreAfterExpiredKept(store, email) == store

\* an expired entry that takes every entry of the store with it
StoreAfterExpiredCleared(store, email) == EmptyMap

\* a verified entry that is left in the store
StoreAfterSuccessKept(store, email) == store

\* a failed comparison that consumes the entry
StoreAfterMismatchDeleted(store, email) == MapDelete(store, email)

\* a verification that leaves the expiry to the cleanup
IsExpiredNever(t, expireAt) == FALSE

\* an entry that is already expired at expireAt
IsExpiredAtBoundary(t, expireAt) == t >= expireAt

\* Date.now() > expireAt
IsExpired(t, expireAt) == t > expireAt

\* a comparison that normalises the submitted string first
CodesMatchTrimmed(storedOtp, otp) ==
  otp.t = "string" /\ storedOtp = Trim(otp.v)

\* storedOtp === otp
CodesMatch(storedOtp, otp) == otp.t = "string" /\ storedOtp = otp.v

\* the store after req.verifyOtp found the entry expired
StoreAfterExpired(store, email) == MapDelete(store, email)

\* the store after a successful comparison in req.verifyOtp
StoreAfterSuccess(store, email) == MapDelete(store, email)

\* the store after a failed comparison in req.verifyOtp
StoreAfterMismatch(store, email) == store

\* a failure response that carries the stored code
MismatchResponseEchoing(storedOtp) ==
  createResponse(FALSE, Msg(MISMATCH_MSG), Str(storedOtp))

\* return createResponse(false, 'Invalid OTP. Please try again.');
\* storedOtp is in scope and is not used
MismatchResponse(storedOtp) == createResponse(FALSE, Msg(MISMATCH_MSG), Null)

\* req.verifyOtp(email, otp) at Date.now() = t: the response and the store
verifyOtp(cfg, store, email, otp, t) ==
  LET emailValidation == validateEmail(email)
      otpValidation == validateOTP(otp, cfg.otpLength)
      Returns(body, newStore) ==
        [threw |-> FALSE, body |-> body, otpStore |-> newStore]
      Catches ==
        [threw |-> Caught(VERIFY_FAILED_MSG).threw,
         body |-> Caught(VERIFY_FAILED_MSG).body, otpStore |-> store]
  IN  IF emailValidation.threw
      THEN Catches
      ELSE IF ~emailValidation.isValid
      THEN Returns(createResponse(FALSE, emailValidation.error, Null), store)
      ELSE IF otpValidation.threw
      THEN Catches
      ELSE IF ~otpValidation.isValid
      THEN Returns(createResponse(FALSE, otpValidation.error, Null), store)
      ELSE IF email \notin DOMAIN store
      THEN Returns(createResponse(FALSE, Msg(NOT_FOUND_MSG), Null), store)
      ELSE IF IsExpired(t, store[email].expireAt)
      THEN Returns(createResponse(FALSE, Msg(EXPIRED_MSG), Null),
                   StoreAfterExpired(store, email))
      ELSE IF CodesMatch(store[email].otp, otp)
      THEN Returns(createResponse(TRUE, Msg(VERIFIED_MSG), email),
                   StoreAfterSuccess(store, email))
      ELSE Returns(MismatchResponse(store[email].otp),
                   StoreAfterMismatch(store, email))

\* a cleanup that also deletes the entries expiring at this very time
cleanupExpiredOtpsAtBoundary(store, t) ==
  [e \in {x \in DOMAIN store : t < store[x].expireAt} |-> store[e]]

\* req.cleanupExpiredOtps() at Date.now() = t
cleanupExpiredOtps(store, t) ==
  [e \in {x \in DOMAIN store : ~(t > store[x].expireAt)} |-> store[e]]

\* a route that answers every result with 200
RouteStatusAlwaysOk(result) == 200

\* the status a route gives the result of req.sendOtp / req.verifyOtp
RouteStatus(result) == IF result.success THEN 200 ELSE 400

(* ------------------------------------------------------------------ *)
(* History                                                              *)
(* ------------------------------------------------------------------ *)
\* otpStore.set(email, {otp, expireAt}) was executed
NoteIssue(h, store, email, otp, expireAt) ==
  MapSet(h, email,
         [otp |-> otp, expireAt |-> expireAt, verified |-> 0,
          replaced |-> IF email \in DOMAIN store THEN store[email].otp
                       ELSE <<>>])

\* a verification of email answered success
NoteSuccess(h, email) ==
  IF email \in DOMAIN h
  THEN [h EXCEPT ![email].verified = IF @ < 2 THEN @ + 1 ELSE @]
  ELSE h

\* a limiter call for key answered allowed or not at time t; a window
\* starts with the first allowed call of a key and with the first allowed
\* call more than windowMs after the start of the key's previous window
NoteAdmit(h, key, allowed, t, limit) ==
  IF ~allowed THEN h
  ELSE IF key \in DOMAIN h /\ t <= h[key].start + limit.windowMs
  THEN [h EXCEPT ![key].count =
                   IF @ <= limit.maxAttempts THEN @ + 1 ELSE @]
  ELSE MapSet(h, key, [start |-> t, count |-> 1])

\* the limiter of req.sendOtp allowed a call for key at time t: the
\* times older than one window are dropped and the call is added
NoteAdmitTime(log, key, t, windowMs) ==
  LET old == IF key \in DOMAIN log THEN log[key] ELSE EmptyMap
      times == {u \in DOMAIN old : u >= t - windowMs} \cup {t}
  IN  MapSet(log, key,
             [u \in times |-> (IF u \in DOMAIN old THEN old[u] ELSE 0)
                              + (IF u = t THEN 1 ELSE 0)])

\* a handler that could start only when no req.sendOtp is suspended
RunnableWhenNoneAwaited(awaiting) == awaiting = <<>>

\* await transporter.sendMail returns control to the event loop and holds
\* nothing: a request's handler can start whatever calls are suspended
Runnable(awaiting) == TRUE

(* ------------------------------------------------------------------ *)
(* Actions                                                              *)
(* ------------------------------------------------------------------ *)
Tick(ticks) ==
  /\ now + ClockStep <= ticks * ClockStep
  /\ now' = now + ClockStep
  /\ UNCHANGED <<config, otpStore, rateLimitStore, sentotpStore,
                 verifyotpStore, pending, last, issued, admitted, sample,
                 admitLog>>

\* POST /send, up to the response or to the await in req.sendOtp
PostSend(ip, email, draw) ==
  /\ Runnable(pending)
  /\ IF Falsy(email)
     THEN /\ last' = Event("POST /send", ip, email, Undefined, 400,
                           createResponse(FALSE, Msg("Email is required"), Null))
          /\ UNCHANGED <<now, config, otpStore, rateLimitStore, sentotpStore,
                         verifyotpStore, pending, issued, admitted, sample,
                 admitLog>>
     ELSE LET r == sendOtpStart(config, otpStore, rateLimitStore, email, draw, now)
          IN  /\ r.returned \/ Len(pending) < MaxPending
              /\ otpStore' = r.otpStore
              /\ rateLimitStore' = r.rateLimitStore
              /\ pending' = IF r.returned THEN pending
                            ELSE Append(pending, [email |-> email, otp |-> r.otp])
              /\ last' = IF r.threw
                         THEN Event("POST /send", ip, email, Undefined, 0,
                                    NoBody)
                         ELSE IF r.returned
                         THEN Event("POST /send", ip, email, Undefined,
                                    RouteStatus(r.body), r.body)
                         ELSE Event("POST /send", ip, email, Str(r.otp), 0, NoBody)
              /\ issued' = IF r.returned THEN issued
                           ELSE NoteIssue(issued, otpStore, email, r.otp,
                                          now + ExpiryMs(config))
              /\ admitLog' = IF r.rateLimitStore # rateLimitStore
                             THEN NoteAdmitTime(admitLog, email, now,
                                                config.rateLimit.windowMs)
                             ELSE admitLog
              /\ UNCHANGED <<now, config, sentotpStore, verifyotpStore, admitted,
                             sample>>

\* transporter.sendMail of the i-th suspended req.sendOtp settles; the
\* call resumes and the /send route writes the response
MailSettles(i, delivered) ==
  /\ i \in 1..Len(pending)
  /\ LET r == sendOtpFinish(pending[i].email, delivered)
     IN  last' = IF r.threw
                 THEN Event("mail", "", pending[i].email, Str(pending[i].otp),
                            0, NoBody)
                 ELSE Event("mail", "", pending[i].email, Str(pending[i].otp),
                            RouteStatus(r.body), r.body)
  /\ pending' = [j \in 1..(Len(pending) - 1) |->
                   IF j < i THEN pending[j] ELSE pending[j + 1]]
  /\ otpStore' = StoreAfterDispatch(otpStore, pending[i].email, delivered)
  /\ UNCHANGED <<now, config, rateLimitStore, sentotpStore, verifyotpStore,
                 issued, admitted, sample,
                 admitLog>>

\* server/index.js: the error handler, which Express calls when a
\* synchronous handler throws
InternalError == createResponse(FALSE, Msg("Internal server error"), Null)

\* POST /verify
PostVerify(ip, email, otp) ==
  /\ Runnable(pending)
  /\ IF Falsy(email) \/ Falsy(otp)
     THEN /\ last' = Event("POST /verify", ip, email, otp, 400,
                           createResponse(FALSE,
                                          Msg("Email and OTP are required"), Null))
          /\ UNCHANGED <<now, config, otpStore, rateLimitStore, sentotpStore,
                         verifyotpStore, pending, issued, admitted, sample,
                 admitLog>>
     ELSE LET r == verifyOtp(config, otpStore, email, otp, now)
          IN  /\ otpStore' = r.otpStore
              /\ last' = IF r.threw
                         THEN Event("POST /verify", ip, email, otp, 500,
                                    InternalError)
                         ELSE Event("POST /verify", ip, email, otp,
                                    RouteStatus(r.body), r.body)
              /\ issued' = IF r.body.success THEN NoteSuccess(issued, email)
                           ELSE issued
              /\ UNCHANGED <<now, config, rateLimitStore, sentotpStore,
                             verifyotpStore, pending, admitted, sample,
                 admitLog>>

\* one key for all clients
LimiterKeyShared(ip) == "*"

\* const key = req.ip || req.connection.remoteAddress
LimiterKey(ip) == ip

NotFound404 == createResponse(FALSE, Msg("Endpoint not found"), Null)

\* a denial answered like a failed req.sendOtp
DeniedAsBadRequest(error) ==
  [status |-> 400, body |-> createResponse(FALSE, error, Null)]

\* rateLimitMiddleware:
\* res.status(429).json(createResponse(false, rateLimitResult.error))
Denied(error) ==
  [status |-> 429, body |-> createResponse(FALSE, error, Null)]

\* POST /sentotp: the limiter mounted on /sentotp, the router (no route
\* matches), app.post('/sentotp') rewriting req.url, then the handlers
\* registered after it, of which only the 404 handler matches
PostSentotp(ip) ==
  LET r == checkRateLimit(sentotpStore, LimiterKey(ip),
                          SentotpLimit.maxAttempts,
                          SentotpLimit.windowMs, now)
  IN  /\ sentotpStore' = r.store
      /\ last' = IF r.allowed
                 THEN Event("POST /sentotp", ip, Undefined, Undefined, 404,
                            NotFound404)
                 ELSE Event("POST /sentotp", ip, Undefined, Undefined,
                            Denied(r.error).status, Denied(r.error).body)
      /\ admitted' = [admitted EXCEPT !.sentotp =
                        NoteAdmit(@, ip, r.allowed, now, SentotpLimit)]
      /\ UNCHANGED <<now, config, otpStore, rateLimitStore, verifyotpStore,
                     pending, issued, sample,
                 admitLog>>

\* POST /verifyotp: as POST /sentotp, with the limiter mounted on /verifyotp
PostVerifyotp(ip) ==
  LET r == checkRateLimit(verifyotpStore, LimiterKey(ip),
                          VerifyotpLimit.maxAttempts,
                          VerifyotpLimit.windowMs, now)
  IN  /\ verifyotpStore' = r.store
      /\ last' = IF r.allowed
                 THEN Event("POST /verifyotp", ip, Undefined, Undefined, 404,
                            NotFound404)
                 ELSE Event("POST /verifyotp", ip, Undefined, Undefined,
                            Denied(r.error).status, Denied(r.error).body)
      /\ admitted' = [admitted EXCEPT !.verifyotp =
                        NoteAdmit(@, ip, r.allowed, now, VerifyotpLimit)]
      /\ UNCHANGED <<now, config, otpStore, rateLimitStore, sentotpStore,
                     pending, issued, sample,
                 admitLog>>

\* a direct call generateOTP(length)
Generate(length, draw) ==
  /\ sample' = [length |-> length, draw |-> draw,
                code |-> generateOTP(length, draw)]
  /\ UNCHANGED <<now, config, otpStore, rateLimitStore, sentotpStore,
                 verifyotpStore, pending, last, issued, admitted,
                 admitLog>>

\* POST /cleanup: registered only when options.enableCleanupRoute
PostCleanup(ip) ==
  /\ IF config.enableCleanupRoute
     THEN /\ otpStore' = cleanupExpiredOtps(otpStore, now)
          /\ last' = Event("POST /cleanup", ip, Undefined, Undefined, 200,
                           createResponse(TRUE, Msg("Cleanup completed"), Null))
     ELSE /\ otpStore' = otpStore
          /\ last' = Event("POST /cleanup", ip, Undefined, Undefined, 404,
                           NotFound404)
  /\ UNCHANGED <<now, config, rateLimitStore, sentotpStore, verifyotpStore,
                 pending, issued, admitted, sample,
                 admitLog>>

(* ------------------------------------------------------------------ *)
(* index.js: the standalone server.  Its otpStore is the variable       *)
(* otpStore, its clock the variable now.                                *)
(* ------------------------------------------------------------------ *)
\* randomOTP; draw is Math.floor(Math.random() * 900000)
randomOTP(draw) == NumToString(100000 + draw)
RandomOTPDraws == {0, 899999}

\* the objects Express hands to a route handler, in this order: the
\* request, with the parsed body, and the response, which has no body
Request(body) == [body |-> body]
Response == [body |-> Undefined]
JsonBody(email, otp) == [t |-> "object", email |-> email, otp |-> otp]

\* app.post('/sentotp', async (res, req) => ...): the second parameter,
\* which the handler calls req, is bound to the response
SentotpReq(request, response) == response
\* app.post('/verifyotp', (req, res) => ...)
VerifyotpReq(request, response) == request

\* { success, message } as the standalone server writes it
Json(success, text) == [success |-> success, message |-> Msg(text)]

\* app.post('/sentotp') up to the first response, the await or the throw:
\* const {email} = req.body throws a TypeError when req.body is undefined
standaloneSentotp(request, response, store, draw, t) ==
  LET req == SentotpReq(request, response)
      otp == randomOTP(draw)
      expireAt == t + 5 * 60 * 1000
  IN  IF req.body.t \in {"undefined", "null"}
      THEN [threw |-> TRUE, returned |-> TRUE, status |-> 0,
            body |-> Json(FALSE, ""), otp |-> <<>>, otpStore |-> store]
      ELSE IF Falsy(req.body.email)
      THEN [threw |-> FALSE, returned |-> TRUE, status |-> 400,
            body |-> Json(FALSE, "Email is required..!"), otp |-> <<>>,
            otpStore |-> store]
      ELSE [threw |-> FALSE, returned |-> FALSE, status |-> 0,
            body |-> Json(FALSE, ""), otp |-> otp,
            otpStore |-> MapSet(store, req.body.email,
                                [otp |-> otp, expireAt |-> expireAt])]

\* app.post('/sentotp') after await transporter.sendMail
standaloneSentotpFinish(delivered) ==
  IF delivered
  THEN [status |-> 200, body |-> Json(TRUE, "OTP sent successfully..!")]
  ELSE [status |-> 500, body |-> Json(FALSE, SEND_FAILED_MSG)]

\* /^\d{6}$/.test(otp): the argument is converted to a string, not trimmed
SixDigits(otp) ==
  /\ otp.t \in {"string", "number"}
  /\ Len(otp.v) = 6
  /\ \A i \in 1..Len(otp.v) : otp.v[i] \in DigitChars

\* otpStore === otp: the Map itself is compared with the submitted value
StoreIsCode(store, otp) == FALSE

\* app.post('/verifyotp')
standaloneVerifyotp(request, response, store, t) ==
  LET req == VerifyotpReq(request, response)
      email == req.body.email
      otp == req.body.otp
      Answer(status, body, newStore) ==
        [status |-> status, body |-> body, otpStore |-> newStore]
  IN  IF Falsy(email) \/ Falsy(otp)
      THEN Answer(400, Json(FALSE, "Email and OTP are required..!"), store)
      ELSE IF ~SixDigits(otp)
      THEN Answer(400, Json(FALSE, "Invalid OTP format. OTP must be 6 digits."),
                  store)
      ELSE IF email \notin DOMAIN store
      THEN Answer(400, Json(FALSE, NOT_FOUND_MSG), store)
      ELSE IF t > store[email].expireAt
      THEN Answer(400, Json(FALSE, EXPIRED_MSG), MapDelete(store, email))
      ELSE IF StoreIsCode(store, otp)
      THEN Answer(200, Json(TRUE, "OTP verified successfully..!"),
                  MapDelete(store, email))
      ELSE Answer(400, Json(FALSE, MISMATCH_MSG), store)

\* what becomes of the exception thrown inside the async handler, a
\* rejected promise nothing awaits: the request is left without a response
\* (Express 4), the process ends on the unhandled rejection and takes the
\* store with it (Node.js 15 and later), or the rejection reaches the
\* default error handler, which answers 500 (Express 5)
RejectionOutcomes == {"no response", "process exit", "status 500"}

\* POST /sentotp of the standalone server
StandaloneSentotp(ip, email, draw, outcome) ==
  LET r == standaloneSentotp(Request(JsonBody(email, Undefined)), Response,
                             otpStore, draw, now)
  IN  /\ r.returned \/ Len(pending) < MaxPending
      /\ otpStore' = IF r.threw /\ outcome = "process exit" THEN EmptyMap
                     ELSE r.otpStore
      /\ pending' = IF r.threw /\ outcome = "process exit" THEN <<>>
                    ELSE IF r.returned THEN pending
                    ELSE Append(pending, [email |-> email, otp |-> r.otp])
      /\ last' = IF r.threw
                 THEN Event("index.js POST /sentotp", ip, email, Undefined,
                            IF outcome = "status 500" THEN 500 ELSE 0,
                            Json(FALSE, outcome))
                 ELSE Event("index.js POST /sentotp", ip, email,
                            IF r.returned THEN Undefined ELSE Str(r.otp),
                            r.status, r.body)
      /\ UNCHANGED <<now, config, rateLimitStore, sentotpStore, verifyotpStore,
                     issued, admitted, sample, admitLog>>

\* transporter.sendMail of the i-th suspended /sentotp handler settles
StandaloneMailSettles(i, delivered) ==
  /\ i \in 1..Len(pending)
  /\ LET r == standaloneSentotpFinish(delivered)
     IN  last' = Event("index.js mail", "", pending[i].email,
                       Str(pending[i].otp), r.status, r.body)
  /\ pending' = [j \in 1..(Len(pending) - 1) |->
                   IF j < i THEN pending[j] ELSE pending[j + 1]]
  /\ UNCHANGED <<now, config, otpStore, rateLimitStore, sentotpStore,
                 verifyotpStore, issued, admitted, sample, admitLog>>

\* POST /verifyotp of the standalone server
StandaloneVerifyotp(ip, email, otp) ==
  LET r == standaloneVerifyotp(Request(JsonBody(email, otp)), Response,
                               otpStore, now)
  IN  /\ otpStore' = r.otpStore
      /\ last' = Event("index.js POST /verifyotp", ip, email, otp, r.status,
                       r.body)
      /\ UNCHANGED <<now, config, rateLimitStore, sentotpStore, verifyotpStore,
                     pending, issued, admitted, sample, admitLog>>

\* requests to the routes of createOtpRoutes: /send, /verify, /cleanup
Next ==
  \/ Tick(StoreTicks)
  \/ \E ip \in Clients, email \in EmailInputs :
       \E draw \in RandomDraws(config.otpLength) : PostSend(ip, email, draw)
  \/ \E i \in 1..MaxPending, delivered \in BOOLEAN : MailSettles(i, delivered)
  \/ \E ip \in Clients, email \in EmailInputs, otp \in OtpInputs :
       PostVerify(ip, email, otp)
  \/ \E ip \in Clients : PostCleanup(ip)

Spec == Init /\ [][Next]_vars

\* requests to the documented endpoints /sentotp and /verifyotp
NextLegacy ==
  \/ Tick(MaxTicks)
  \/ \E ip \in Clients : PostSentotp(ip)
  \/ \E ip \in Clients : PostVerifyotp(ip)

SpecLegacy == Init /\ [][NextLegacy]_vars

\* the same run with what happens without any client: time passes and a
\* started mail dispatch settles.  No request is ever bound to arrive, and
\* the server starts no timer.
SpecUnattended ==
  /\ Spec
  /\ WF_vars(Tick(StoreTicks))
  /\ WF_vars(\E i \in 1..MaxPending, delivered \in BOOLEAN :
               MailSettles(i, delivered))

\* the two paths of issuance: /send and /sentotp
NextSendPaths ==
  \/ Tick(StoreTicks)
  \/ \E ip \in Clients, email \in EmailInputs :
       \E draw \in RandomDraws(config.otpLength) : PostSend(ip, email, draw)
  \/ \E i \in 1..MaxPending, delivered \in BOOLEAN : MailSettles(i, delivered)
  \/ \E ip \in Clients : PostSentotp(ip)

SpecSendPaths == Init /\ [][NextSendPaths]_vars

\* the two paths of verification, /verify and /verifyotp, for one code
NextVerifyPaths ==
  \/ Tick(StoreTicks)
  \/ \E ip \in Clients : PostSend(ip, EmailA, 0)
  \/ \E i \in 1..MaxPending, delivered \in BOOLEAN : MailSettles(i, delivered)
  \/ \E ip \in Clients, otp \in OtpInputs : PostVerify(ip, EmailA, otp)
  \/ \E ip \in Clients : PostVerifyotp(ip)

SpecVerifyPaths == Init /\ [][NextVerifyPaths]_vars

\* the state after construction when createOtpRoutes is also given the
\* rateLimit option
InitLimited ==
  /\ now = 0
  /\ config \in {Spread(Spread(DEFAULT_CONFIG, ServerOptions(d)),
                         LimitedOptions) : d \in BOOLEAN}
  /\ otpStore = EmptyMap
  /\ rateLimitStore = EmptyMap
  /\ sentotpStore = EmptyMap
  /\ verifyotpStore = EmptyMap
  /\ pending = <<>>
  /\ last = Event("none", "", Undefined, Undefined, 0, NoBody)
  /\ issued = EmptyMap
  /\ admitted = [sentotp |-> EmptyMap, verifyotp |-> EmptyMap]
  /\ sample = [length |-> 0, draw |-> 0, code |-> <<>>]
  /\ admitLog = EmptyMap

\* the three limiters at work: the one of req.sendOtp behind /send and
\* the ones mounted on /sentotp and /verifyotp, within one window
NextLimited ==
  \/ \E ip \in Clients : PostSend(ip, EmailA, 0)
  \/ \E i \in 1..MaxPending, delivered \in BOOLEAN : MailSettles(i, delivered)
  \/ \E ip \in Clients : PostSentotp(ip)
  \/ \E ip \in Clients : PostVerifyotp(ip)

SpecLimited == InitLimited /\ [][NextLimited]_vars

\* request bodies with missing, empty, blank and non-string fields
EmailInputsWide ==
  EmailInputs \cup {Null, Str(<<>>), Str(<<" ">>), Num(<<"7">>), Num(<<"0">>)}
OtpInputsWide ==
  OtpInputs \cup {Null, Str(<<>>), Str(<<" ">>),
                  Str(<<"1", "0", "0", "0", "0", "0", " ">>),
                  Num(<<"1", "0", "0", "0", "0", "0">>), Num(<<"0">>)}

\* /send and /verify called with every kind of input, and both outcomes
\* of the mail dispatch
NextInputs ==
  \/ \E ip \in Clients, email \in EmailInputsWide : PostSend(ip, email, 0)
  \/ \E i \in 1..MaxPending, delivered \in BOOLEAN : MailSettles(i, delivered)
  \/ \E ip \in Clients, email \in EmailInputsWide, otp \in OtpInputsWide :
       PostVerify(ip, email, otp)

SpecInputs == Init /\ [][NextInputs]_vars

\* the limiter of req.sendOtp over several windows: issuance with the
\* rateLimit option on, the settling of the mails and the clock
NextWindow ==
  \/ Tick(MaxTicks)
  \/ \E ip \in Clients : PostSend(ip, EmailA, 0)
  \/ \E i \in 1..MaxPending : MailSettles(i, TRUE)

SpecWindow == InitLimited /\ [][NextWindow]_vars

\* the two mounted limiters called by two clients within one window
NextTwoClients ==
  \/ \E ip \in TwoClients : PostSentotp(ip)
  \/ \E ip \in TwoClients : PostVerifyotp(ip)

SpecTwoClients == Init /\ [][NextTwoClients]_vars

\* two addresses served by one otpMiddleware: issuance (any code for the
\* first, the smallest for the second), both outcomes of the mail,
\* verification with the codes generateOTP can draw, expiry
TwoAddresses == {EmailA, EmailB}
DrawnCodes ==
  {Str(generateOTP(config.otpLength, d)) : d \in RandomDraws(config.otpLength)}

NextTwoAddresses ==
  \/ Tick(TwoAddressTicks)
  \/ \E ip \in Clients :
       \E draw \in RandomDraws(config.otpLength) : PostSend(ip, EmailA, draw)
  \/ \E ip \in Clients : PostSend(ip, EmailB, 0)
  \/ \E i \in 1..MaxPending, delivered \in BOOLEAN : MailSettles(i, delivered)
  \/ \E ip \in Clients, email \in TwoAddresses, otp \in DrawnCodes :
       PostVerify(ip, email, otp)

\* the server started without NODE_ENV=development; the cleanup route,
\* the one thing the setting changes, is not called here
InitProduction ==
  /\ Init
  /\ config = Spread(DEFAULT_CONFIG, ServerOptions(FALSE))

SpecTwoAddresses == InitProduction /\ [][NextTwoAddresses]_vars

\* one address written in two more ways that validateEmail accepts:
\* followed by a space, with a capital letter
AddressForms ==
  {Str(<<"a", "@", "b", ".", "c", " ">>), Str(<<"A", "@", "b", ".", "c">>)}

\* issuance for the two forms and verification for the address itself,
\* with the rateLimit option on, within one window
NextAddressForms ==
  \/ \E ip \in Clients, email \in AddressForms : PostSend(ip, email, 0)
  \/ \E i \in 1..MaxPending : MailSettles(i, TRUE)
  \/ \E ip \in Clients :
       PostVerify(ip, EmailA, Str(generateOTP(config.otpLength, 0)))

SpecAddressForms == InitLimited /\ [][NextAddressForms]_vars

\* the standalone server: its two routes and the clock.  No call of the
\* /sentotp handler reaches the await, so no mail ever settles.
NextStandalone ==
  \/ Tick(StoreTicks)
  \/ \E ip \in Clients, email \in EmailInputsWide, draw \in RandomOTPDraws :
       \E outcome \in RejectionOutcomes :
         StandaloneSentotp(ip, email, draw, outcome)
  \/ \E ip \in Clients, email \in EmailInputsWide, otp \in OtpInputsWide :
       StandaloneVerifyotp(ip, email, otp)

SpecStandalone == InitProduction /\ [][NextStandalone]_vars

\* generateOTP called for every length up to MaxOtpLength and every draw
NextGenerate ==
  \E length \in 1..MaxOtpLength : \E draw \in AllDraws(length) :
    Generate(length, draw)

SpecGenerate == Init /\ [][NextGenerate]_vars

(* ------------------------------------------------------------------ *)
(* Properties                                                           *)
(* ------------------------------------------------------------------ *)
\* the step is the handling of a POST /verify request
VerifyStep == last'.op = "POST /verify" /\ now' = now

\* the request passes the route's and req.verifyOtp's input checks and so
\* reaches the lookup in the store
ReachesLookup(email, otp) ==
  /\ ~Falsy(email) /\ ~Falsy(otp)
  /\ validateEmail(email).isValid
  /\ validateOTP(otp, config.otpLength).isValid

Answered(ev, status, success, text) ==
  /\ ev.status = status
  /\ ev.body.success = success
  /\ ev.body.message = Msg(text)

\* C1: single use.  A verification carrying the code stored for its
\* address, not later than expireAt, is answered with success and removes
\* the entry; the same verification repeated right after it is answered
\* "not found" and changes nothing.
C1_SingleUse ==
  [][VerifyStep =>
      LET e == last'.email
          x == last'.otp
      IN  /\ (/\ e \in DOMAIN otpStore
              /\ x = Str(otpStore[e].otp)
              /\ now <= otpStore[e].expireAt)
             => /\ Answered(last', 200, TRUE, VERIFIED_MSG)
                /\ last'.body.data = e
                /\ e \notin DOMAIN otpStore'
          /\ (/\ last.op = "POST /verify" /\ last.body.success
              /\ last.email = e /\ last.otp = x)
             => /\ Answered(last', 400, FALSE, NOT_FOUND_MSG)
                /\ otpStore' = otpStore]_vars

C1_Witness ==
  /\ last.op = "POST /verify"
  /\ Answered(last, 200, TRUE, VERIFIED_MSG)
  /\ last.email \in DOMAIN issued
  /\ last.otp = Str(issued[last.email].otp)
  /\ last.email \notin DOMAIN otpStore

\* C2: of the verification requests for one address that carry the stored
\* code, at most one is answered with success per otpStore.set, and the
\* step that answers success is the step that removes the entry.
C2_AtMostOneSuccess ==
  /\ [](\A e \in DOMAIN issued : issued[e].verified <= 1)
  /\ [][(VerifyStep /\ last'.body.success)
         => /\ last'.email \in DOMAIN otpStore
            /\ last'.email \notin DOMAIN otpStore']_vars

\* a second request with the stored code found the entry gone
C2_Witness ==
  /\ last.op = "POST /verify"
  /\ Answered(last, 400, FALSE, NOT_FOUND_MSG)
  /\ last.email \in DOMAIN issued
  /\ issued[last.email].verified = 1
  /\ last.otp = Str(issued[last.email].otp)
  /\ now <= issued[last.email].expireAt

\* C3: a verification request whose code is compared with the stored code
\* was admitted by a limiter in the same request.
C3_VerifyIsLimited ==
  [][(/\ VerifyStep
      /\ last'.body.message \in {Msg(VERIFIED_MSG), Msg(MISMATCH_MSG)})
     => (verifyotpStore' # verifyotpStore \/ rateLimitStore' # rateLimitStore)
    ]_vars

\* C4: a request that writes a code into the store was admitted by a
\* limiter in the same request.
C4_IssueIsLimited ==
  [][(\E e \in DOMAIN otpStore' :
         e \notin DOMAIN otpStore \/ otpStore'[e] # otpStore[e])
     => (sentotpStore' # sentotpStore \/ rateLimitStore' # rateLimitStore)
    ]_vars

\* the step is a request to path through the limiter mounted on it
LimiterStep(path) == last'.op = path /\ now' = now

\* a limiter call is answered as the admission count requires: allowed for
\* a key without window, allowed once the window is over, and inside the
\* window allowed exactly while fewer than maxAttempts calls were allowed
AdmitsByCount(path, windows, limit) ==
  LimiterStep(path) =>
    LET k == last'.ip
        allowed == last'.status # 429
    IN  IF k \notin DOMAIN windows THEN allowed
        ELSE IF now > windows[k].start + limit.windowMs THEN allowed
        ELSE allowed <=> windows[k].count < limit.maxAttempts

\* C5: from a key without record exactly maxAttempts calls of one window
\* are allowed and the next call in the window is denied; a call after the
\* window is over is allowed again.
C5_AdmissionCount ==
  /\ [][/\ AdmitsByCount("POST /sentotp", admitted.sentotp, SentotpLimit)
        /\ AdmitsByCount("POST /verifyotp", admitted.verifyotp,
                         VerifyotpLimit)]_vars
  /\ [](\A k \in DOMAIN admitted.sentotp :
          admitted.sentotp[k].count <= SentotpLimit.maxAttempts)
  /\ [](\A k \in DOMAIN admitted.verifyotp :
          admitted.verifyotp[k].count <= VerifyotpLimit.maxAttempts)

\* a key was denied in a window begun after its first window was over
C5_Witness ==
  /\ last.op = "POST /sentotp"
  /\ last.status = 429
  /\ admitted.sentotp[last.ip].count = SentotpLimit.maxAttempts
  /\ admitted.sentotp[last.ip].start > SentotpLimit.windowMs

\* C6: the attempts counter of every stored limiter record is between 1
\* and maxAttempts.
C6_AttemptsInRange ==
  /\ \A k \in DOMAIN sentotpStore :
       /\ 1 <= sentotpStore[k].attempts
       /\ sentotpStore[k].attempts <= SentotpLimit.maxAttempts
  /\ \A k \in DOMAIN verifyotpStore :
       /\ 1 <= verifyotpStore[k].attempts
       /\ verifyotpStore[k].attempts <= VerifyotpLimit.maxAttempts

C6_Witness ==
  /\ last.op = "POST /verifyotp"
  /\ last.status = 429
  /\ verifyotpStore[last.ip].attempts = VerifyotpLimit.maxAttempts
  /\ \E k \in DOMAIN sentotpStore : sentotpStore[k].attempts = 1

\* C7: a verification that reaches the lookup after expireAt is answered
\* "expired" whatever code it carries and removes the entry; the next
\* verification for the address is answered "not found".
C7_Expiry ==
  [][VerifyStep =>
      LET e == last'.email
          x == last'.otp
      IN  /\ (/\ ReachesLookup(e, x)
              /\ e \in DOMAIN otpStore
              /\ now > otpStore[e].expireAt)
             => /\ Answered(last', 400, FALSE, EXPIRED_MSG)
                /\ e \notin DOMAIN otpStore'
          /\ (/\ last.op = "POST /verify"
              /\ last.body.message = Msg(EXPIRED_MSG)
              /\ last.email = e
              /\ ReachesLookup(e, x))
             => Answered(last', 400, FALSE, NOT_FOUND_MSG)]_vars

\* the stored code itself was answered "expired"
C7_Witness ==
  /\ last.op = "POST /verify"
  /\ Answered(last, 400, FALSE, EXPIRED_MSG)
  /\ last.otp = Str(issued[last.email].otp)
  /\ now > issued[last.email].expireAt
  /\ last.email \notin DOMAIN otpStore

\* C8: a verification that reaches an unexpired entry with another code
\* than the stored one is answered "invalid", leaves the store as it was,
\* and the stored code still verifies.
C8_MismatchKeepsEntry ==
  [][VerifyStep =>
      LET e == last'.email
          x == last'.otp
      IN  (/\ ReachesLookup(e, x)
           /\ e \in DOMAIN otpStore
           /\ now <= otpStore[e].expireAt
           /\ x.v # otpStore[e].otp)
          => /\ Answered(last', 400, FALSE, MISMATCH_MSG)
             /\ otpStore' = otpStore
             /\ verifyOtp(config, otpStore', e, Str(otpStore[e].otp),
                          now').body.success]_vars

C8_Witness ==
  /\ last.op = "POST /verify"
  /\ Answered(last, 400, FALSE, MISMATCH_MSG)
  /\ last.email \in DOMAIN otpStore
  /\ last.otp.v # otpStore[last.email].otp
  /\ now <= otpStore[last.email].expireAt

\* C9: the store holds for an address the code and expiry of the latest
\* otpStore.set only; that code verifies until expireAt, and a
\* verification answered with success carried it, so a replaced code is
\* never answered with success.
C9_ReissueInvalidates ==
  /\ \A e \in DOMAIN otpStore :
       /\ e \in DOMAIN issued
       /\ otpStore[e].otp = issued[e].otp
       /\ otpStore[e].expireAt = issued[e].expireAt
       /\ now <= otpStore[e].expireAt
          => verifyOtp(config, otpStore, e, Str(issued[e].otp),
                       now).body.success
       /\ (issued[e].replaced # issued[e].otp /\ issued[e].replaced # <<>>)
          => ~verifyOtp(config, otpStore, e, Str(issued[e].replaced),
                        now).body.success
  /\ (last.op = "POST /verify" /\ last.body.success)
     => last.otp = Str(issued[last.email].otp)

\* the replaced code was answered "invalid"
C9_Witness ==
  /\ last.op = "POST /verify"
  /\ Answered(last, 400, FALSE, MISMATCH_MSG)
  /\ last.email \in DOMAIN issued
  /\ last.otp = Str(issued[last.email].replaced)
  /\ issued[last.email].replaced # issued[last.email].otp

\* the step is the settling of a mail dispatch
SettleStep == Len(pending') < Len(pending)

\* C10: the settling of a mail dispatch, delivered or not, leaves the
\* store alone, so after two overlapping issuance requests for an address
\* the store holds the code written last, and the code of the settled
\* request verifies only if it is that code.
C10_LastWriteWins ==
  [][SettleStep =>
      LET e == last'.email
          c == last'.otp
      IN  /\ otpStore' = otpStore
          /\ e \in DOMAIN otpStore'
             => /\ otpStore'[e].otp = issued'[e].otp
                /\ verifyOtp(config, otpStore', e, c, now').body.success
                   => c = Str(issued'[e].otp)]_vars

\* two requests for one address overlapped, both are complete, and the
\* store holds the code of the other than the one completed last
C10_Witness ==
  /\ last.op = "mail"
  /\ last.email \in DOMAIN otpStore
  /\ last.otp # Str(otpStore[last.email].otp)
  /\ \A i \in 1..Len(pending) : pending[i].email # last.email

\* the step suspends a req.sendOtp call at its mail dispatch
DispatchStep == Len(pending') > Len(pending)

\* C11: when a mail dispatch starts the store already holds the code handed
\* to it, and a dispatch that fails leaves the store as it was, so the code,
\* if it was the stored one and is not expired, still verifies.
C11_StoredBeforeDispatch ==
  [][/\ DispatchStep
        => LET p == pending'[Len(pending')]
           IN  /\ p.email \in DOMAIN otpStore'
               /\ otpStore'[p.email].otp = p.otp
               /\ otpStore'[p.email].expireAt = now + ExpiryMs(config)
     /\ (SettleStep /\ ~last'.body.success)
        => LET e == last'.email
               c == last'.otp
           IN  /\ Answered(last', 400, FALSE,
                           "Failed to send OTP. Please try again later.")
               /\ otpStore' = otpStore
               /\ (/\ e \in DOMAIN otpStore
                   /\ otpStore[e].otp = c.v
                   /\ now <= otpStore[e].expireAt)
                  => verifyOtp(config, otpStore', e, c, now').body.success
    ]_vars

\* a dispatch failed and its code is still the stored, unexpired one
C11_Witness ==
  /\ last.op = "mail"
  /\ ~last.body.success
  /\ last.email \in DOMAIN otpStore
  /\ otpStore[last.email].otp = last.otp.v
  /\ now <= otpStore[last.email].expireAt

IsDigitString(s, length) ==
  /\ Len(s) = length
  /\ \A i \in 1..Len(s) : s[i] \in DigitChars

Producible(length) == {generateOTP(length, d) : d \in AllDraws(length)}

\* all strings of length digits
DigitStrings(length) == [1..length -> DigitChars]

C15_DispatchFailureIs500 ==
  (last.op = "mail" /\ ~last.body.success) =>
    /\ last.status = 500
    /\ last.body.message.text # ""

\* the mounted limiter of the path denies the request of this step
MountDenies(path, store, limit) ==
  /\ last'.op = path
  /\ now' = now
  /\ ~checkRateLimit(store, last'.ip, limit.maxAttempts, limit.windowMs,
                     now).allowed

\* the limiter of req.sendOtp denies the POST /send of this step
SendOtpDenies ==
  /\ last'.op = "POST /send"
  /\ now' = now
  /\ "rateLimit" \in DOMAIN config
  /\ ~Falsy(last'.email)
  /\ validateEmail(last'.email).isValid
  /\ ~checkRateLimit(rateLimitStore, last'.email, config.rateLimit.maxAttempts,
                     config.rateLimit.windowMs, now).allowed

\* {success: false, message: "Too many attempts. ..."} with this status
AnsweredDenied(ev, status) ==
  /\ ev.status = status
  /\ ~ev.body.success
  /\ ev.body.message.text = TooManyAttempts(0).text

\* C16 as stated: a request denied by a limiter is answered with status 400
\* and {success: false, message}, on the send and on the verify endpoints.
C16_DeniedIs400 ==
  [][(\/ MountDenies("POST /sentotp", sentotpStore, SentotpLimit)
      \/ MountDenies("POST /verifyotp", verifyotpStore, VerifyotpLimit)
      \/ SendOtpDenies)
     => AnsweredDenied(last', 400)]_vars

\* C16 amended: a request denied by a mounted rateLimitMiddleware is
\* answered with status 429, a POST /send denied by the limiter of
\* req.sendOtp with status 400, both with {success: false, message}; the
\* denied request stores no code.
C16_DeniedIs429Or400 ==
  [][/\ (\/ MountDenies("POST /sentotp", sentotpStore, SentotpLimit)
         \/ MountDenies("POST /verifyotp", verifyotpStore, VerifyotpLimit))
        => AnsweredDenied(last', 429) /\ otpStore' = otpStore
     /\ SendOtpDenies
        => /\ AnsweredDenied(last', 400)
           /\ otpStore' = otpStore
           /\ pending' = pending]_vars

\* the limiter of req.sendOtp is exhausted and a mounted limiter has just
\* denied a request
C16_Witness ==
  /\ AnsweredDenied(last, 429)
  /\ last.op = "POST /verifyotp"
  /\ EmailA \in DOMAIN rateLimitStore
  /\ rateLimitStore[EmailA].attempts >= config.rateLimit.maxAttempts

\* the outcomes of a POST /verify that passed the route's presence check
\* and the address validation, each with the answer the code gives it
VerifyOutcomes(rateLimitedStatus) ==
  /\ VerifyStep =>
       LET e == last'.email
           x == last'.otp
           found == e \in DOMAIN otpStore
       IN  /\ (/\ ~Falsy(e) /\ ~Falsy(x)
               /\ validateEmail(e).isValid
               /\ Trim(x.v) # <<>>
               /\ ~validateOTP(x, config.otpLength).isValid)
              => Answered(last', 400, FALSE, INVALID_OTP)
           /\ (ReachesLookup(e, x) /\ ~found)
              => Answered(last', 400, FALSE, NOT_FOUND_MSG)
           /\ (ReachesLookup(e, x) /\ found /\ now > otpStore[e].expireAt)
              => Answered(last', 400, FALSE, EXPIRED_MSG)
           /\ (/\ ReachesLookup(e, x) /\ found
               /\ now <= otpStore[e].expireAt
               /\ x.v # otpStore[e].otp)
              => Answered(last', 400, FALSE, MISMATCH_MSG)
           /\ (/\ ReachesLookup(e, x) /\ found
               /\ now <= otpStore[e].expireAt
               /\ x.v = otpStore[e].otp)
              => /\ Answered(last', 200, TRUE, VERIFIED_MSG)
                 /\ last'.body.data = e
  /\ MountDenies("POST /verifyotp", verifyotpStore, VerifyotpLimit)
       => AnsweredDenied(last', rateLimitedStatus)
  /\ Cardinality({NOT_FOUND_MSG, EXPIRED_MSG, MISMATCH_MSG, INVALID_OTP,
                  TooManyAttempts(0).text}) = 5

\* C17 as stated: the verify endpoint answers NOT_FOUND, EXPIRED, MISMATCH,
\* INVALID_CODE_FORMAT and RATE_LIMITED with status 400 and five pairwise
\* distinct messages, and SUCCESS with status 200 and the address as data.
C17_FiveOutcomes400 == [][VerifyOutcomes(400)]_vars

\* C17 amended: NOT_FOUND, EXPIRED, MISMATCH and INVALID_CODE_FORMAT are
\* answered with status 400, RATE_LIMITED (the limiter mounted on
\* /verifyotp) with status 429, the five messages pairwise distinct, and
\* SUCCESS with status 200 and the address as data.
C17_FourOutcomes400 == [][VerifyOutcomes(429)]_vars

\* a code of the wrong length was refused while an entry was stored
C17_Witness ==
  /\ last.op = "POST /verify"
  /\ Answered(last, 400, FALSE, INVALID_OTP)
  /\ last.email \in DOMAIN otpStore
  /\ Len(last.otp.v) # config.otpLength

\* C18: a POST to /sentotp or /verifyotp that its limiter admits is handled
\* like /send and /verify and answered with success, not by the 404 handler.
C18_LegacyHandled ==
  (/\ last.op \in {"POST /sentotp", "POST /verifyotp"}
   /\ ~AnsweredDenied(last, Denied(last.body.message).status))
  => /\ last.body # NotFound404
     /\ last.status = 200
     /\ last.body.success

\* INTEGRATION.md, Middleware Options: the documented defaults of
\* rateLimit.maxAttempts and rateLimit.windowMs
DocumentedLimit == [maxAttempts |-> 5, windowMs |-> 900000]

\* C19: with no rateLimit option passed, every req.sendOtp that stores a
\* code is counted by the limiter of its address, as one of at most 5 in a
\* window of 900000 ms, so that a 6th in the window stores no code.
C19_DefaultIssueLimit ==
  [][DispatchStep =>
       LET e == pending'[Len(pending')].email
       IN  /\ e \in DOMAIN rateLimitStore'
           /\ rateLimitStore'[e].attempts \in 1..DocumentedLimit.maxAttempts
           /\ rateLimitStore'[e].resetTime <= now + DocumentedLimit.windowMs
           /\ (e \in DOMAIN rateLimitStore /\ now <= rateLimitStore[e].resetTime)
              => rateLimitStore'[e].attempts = rateLimitStore[e].attempts + 1
    ]_vars

\* the response is {success, message} with the status the routes give it
IsResponse(ev) ==
  /\ ev.status \in {200, 400}
  /\ ev.body.success = (ev.status = 200)
  /\ ev.body.message.text # ""

\* C20: for every input and dispatch outcome req.sendOtp and req.verifyOtp
\* return {success, message} and do not throw; every /verify request is
\* answered at once, and every /send request is either answered or waits
\* for its mail dispatch, whose settling, whatever the outcome, can always
\* happen and answers it.
C20_EveryCallAnswers ==
  /\ \A email \in EmailInputsWide :
       LET r == sendOtpStart(config, otpStore, rateLimitStore, email, 0, now)
       IN  ~r.threw /\ (r.returned => r.body.message.text # "")
  /\ \A email \in EmailInputsWide, otp \in OtpInputsWide :
       LET r == verifyOtp(config, otpStore, email, otp, now)
       IN  ~r.threw /\ r.body.message.text # ""
  /\ \A email \in EmailInputsWide, delivered \in BOOLEAN :
       ~sendOtpFinish(email, delivered).threw
  /\ last.op \in {"POST /verify", "mail"} => IsResponse(last)
  /\ last.op = "POST /send" =>
       \/ IsResponse(last)
       \/ /\ last.status = 0
          /\ pending # <<>>
          /\ pending[Len(pending)] = [email |-> last.email, otp |-> last.otp.v]
  /\ \A i \in 1..Len(pending), delivered \in BOOLEAN :
       ENABLED MailSettles(i, delivered)

\* a number sent as the code of a valid address ended in the catch block
\* of req.verifyOtp and was answered
C20_Witness ==
  /\ last.op = "POST /verify"
  /\ last.otp.t = "number"
  /\ validateEmail(last.email).isValid
  /\ Answered(last, 400, FALSE, VERIFY_FAILED_MSG)

\* codes generateOTP can return, one more than the requests submit
AlternativeCodes ==
  {generateOTP(config.otpLength, d) :
     d \in RandomDraws(config.otpLength) \cup {1}}

\* the store with another code for the address and nothing else changed
WithCode(store, email, code) ==
  MapSet(store, email, [otp |-> code, expireAt |-> store[email].expireAt])

\* what the client of POST /verify sees of a result of req.verifyOtp
Seen(result) == [status |-> RouteStatus(result.body), body |-> result.body]

\* C21: for two stores that differ only in the code stored for an address,
\* a verification of that address whose code equals neither stored code
\* gets the same status and body from both.
C21_NoCodeLeak ==
  \A e \in DOMAIN otpStore :
    \A c \in AlternativeCodes, x \in AlternativeCodes :
      (x # otpStore[e].otp /\ x # c)
      => Seen(verifyOtp(config, otpStore, e, Str(x), now))
         = Seen(verifyOtp(config, WithCode(otpStore, e, c), e, Str(x), now))

\* a wrong code was refused while the entry was stored and unexpired
C21_Witness ==
  /\ last.op = "POST /verify"
  /\ Answered(last, 400, FALSE, MISMATCH_MSG)
  /\ last.body.data = Null
  /\ last.email \in DOMAIN otpStore
  /\ otpStore[last.email].otp # last.otp.v
  /\ now <= otpStore[last.email].expireAt

\* the entries the step created or changed, and those it removed
Written == {e \in DOMAIN otpStore' :
              e \notin DOMAIN otpStore \/ otpStore'[e] # otpStore[e]}
Removed == DOMAIN otpStore \ DOMAIN otpStore'

C23_ExpiryBoundary ==
  [][/\ DispatchStep
        => LET e == pending'[Len(pending')].email
           IN  /\ otpStore'[e].expireAt = now + config.expiryMinutes * 60000
               /\ issued'[e].expireAt = otpStore'[e].expireAt
     /\ \A e \in DOMAIN otpStore : otpStore[e].expireAt = issued[e].expireAt
     /\ VerifyStep
        => LET e == last'.email
               x == last'.otp
           IN  (/\ ReachesLookup(e, x)
                /\ e \in DOMAIN otpStore
                /\ x.v = otpStore[e].otp)
               => /\ now <= otpStore[e].expireAt
                     => Answered(last', 200, TRUE, VERIFIED_MSG)
                  /\ now > otpStore[e].expireAt
                     => Answered(last', 400, FALSE, EXPIRED_MSG)
    ]_vars

\* the stored code was verified at the very time its entry expires, after
\* a re-issuance had restarted the window
C23_Witness ==
  /\ last.op = "POST /verify"
  /\ Answered(last, 200, TRUE, VERIFIED_MSG)
  /\ issued[last.email].replaced # <<>>
  /\ now = issued[last.email].expireAt
  /\ now > config.expiryMinutes * 60000

\* the step is a POST /cleanup that ran req.cleanupExpiredOtps
CleanupStep ==
  last'.op = "POST /cleanup" /\ last'.status = 200 /\ now' = now

\* the entries of the store with expireAt earlier than t taken out
WithoutExpired(store, t) ==
  [e \in {x \in DOMAIN store : ~(store[x].expireAt < t)} |-> store[e]]

\* the store with an entry for a second address expiring at expireAt
WithSecond(store, expireAt) ==
  MapSet(store, EmailB, [otp |-> generateOTP(config.otpLength, 1),
                         expireAt |-> expireAt])

\* C24: the cleanup deletes exactly the entries whose expireAt is earlier
\* than now and leaves every other entry as it was; run again at the same
\* time it changes nothing.  Checked on the store of the step and on that
\* store with a second entry expiring just before, at and just after now.
C24_SweepExact ==
  [][CleanupStep =>
       /\ otpStore' = WithoutExpired(otpStore, now)
       /\ \A e \in DOMAIN otpStore' : otpStore'[e] = otpStore[e]
       /\ cleanupExpiredOtps(otpStore', now') = otpStore'
       /\ \A x \in {now - 1, now, now + 1} :
            LET store == WithSecond(otpStore, x)
                swept == cleanupExpiredOtps(store, now)
            IN  /\ swept = WithoutExpired(store, now)
                /\ (EmailB \in DOMAIN swept) = (x >= now)
                /\ cleanupExpiredOtps(swept, now) = swept
    ]_vars

\* the cleanup ran at the very time an entry expires and left it
C24_Witness ==
  /\ last.op = "POST /cleanup"
  /\ last.status = 200
  /\ EmailA \in DOMAIN otpStore
  /\ otpStore[EmailA].expireAt = now

\* the stores that cleanups at times up to t can have made of a store:
\* any of the entries with expireAt earlier than t taken out
SweptStores(store, t) ==
  {[e \in DOMAIN store \ gone |-> store[e]] :
     gone \in SUBSET {e \in DOMAIN store : store[e].expireAt < t}}

\* one step of the two runs, from store a without and from store b with
\* cleanups: a verification gets the same answer from both, except
\* "expired" from a where b says "not found", and an issuance, a cleanup
\* and the passing of time keep b among the swept stores of a
SweepCommutes(a, t) ==
  \A b \in SweptStores(a, t) :
    /\ \A e \in {EmailA, EmailB}, x \in OtpInputs \cup {Str(c) : c \in AlternativeCodes} :
         LET ra == verifyOtp(config, a, e, x, t)
             rb == verifyOtp(config, b, e, x, t)
         IN  /\ ra.body.success = rb.body.success
             /\ \/ ra.body = rb.body
                \/ /\ ra.body.message = Msg(EXPIRED_MSG)
                   /\ rb.body.message = Msg(NOT_FOUND_MSG)
             /\ rb.otpStore \in SweptStores(ra.otpStore, t)
    /\ \A e \in {EmailA, EmailB}, d \in RandomDraws(config.otpLength) :
         sendOtpStart(config, b, rateLimitStore, e, d, t).otpStore
           \in SweptStores(sendOtpStart(config, a, rateLimitStore, e, d,
                                        t).otpStore, t)
    /\ cleanupExpiredOtps(b, t) \in SweptStores(a, t)
    /\ b \in SweptStores(cleanupExpiredOtps(a, t), t) =>
         cleanupExpiredOtps(b, t) = cleanupExpiredOtps(a, t)
    /\ b \in SweptStores(a, t + ClockStep)

\* C25: cleanups inserted anywhere in a run do not change which
\* verifications succeed; they can only turn a later "expired" into "not
\* found".  Shown step by step from every reachable store, alone and with
\* a second entry expired or not.
C25_SweepPreservesVerify ==
  /\ SweepCommutes(otpStore, now)
  /\ \A x \in {now - 1, now + 1} : SweepCommutes(WithSecond(otpStore, x), now)

\* after a cleanup, the code of an entry that expired unverified is
\* answered "not found"
C25_Witness ==
  /\ config.enableCleanupRoute
  /\ last.op = "POST /verify"
  /\ Answered(last, 400, FALSE, NOT_FOUND_MSG)
  /\ last.email \in DOMAIN issued
  /\ last.otp.v = issued[last.email].otp
  /\ issued[last.email].verified = 0
  /\ now > issued[last.email].expireAt

\* C26: every entry whose expiry has passed is eventually removed from the
\* store, whether or not a client sends another request.
C26_ExpiredEventuallyRemoved ==
  \A e \in {EmailA} :
    (e \in DOMAIN otpStore /\ now > otpStore[e].expireAt)
      ~> (e \notin DOMAIN otpStore)

\* C27: an issuance request with an invalid address is answered as an
\* invalid address, consumes no attempt of the limiter of req.sendOtp or
\* of the limiter mounted in front of issuance, stores no code and starts
\* no mail dispatch.
C27_ValidatesBeforeAdmits ==
  [][(/\ last'.op \in {"POST /send", "POST /sentotp"}
      /\ now' = now
      /\ (Falsy(last'.email) \/ ~validateEmail(last'.email).isValid))
     => /\ last'.status = 400
        /\ last'.body.message \in {Msg(EMAIL_REQUIRED), Msg(INVALID_EMAIL)}
        /\ rateLimitStore' = rateLimitStore
        /\ sentotpStore' = sentotpStore
        /\ otpStore' = otpStore
        /\ pending' = pending
    ]_vars

\* exactly length characters, each a digit
WellFormedCode(x, length) == x.t = "string" /\ IsDigitString(x.v, length)

\* C28: a submitted code string passes the format check of a verification
\* if and only if it is exactly otpLength digits with nothing around them;
\* one that does not is refused as badly formed, and the request neither
\* reads nor changes the store nor consumes a limiter attempt.
C28_CodeShapeChecked ==
  [][(/\ VerifyStep
      /\ ~Falsy(last'.email) /\ validateEmail(last'.email).isValid
      /\ last'.otp.t = "string" /\ last'.otp.v # <<>>)
     => LET x == last'.otp
        IN  /\ validateOTP(x, config.otpLength).isValid
               = WellFormedCode(x, config.otpLength)
            /\ ~WellFormedCode(x, config.otpLength)
               => /\ last'.status = 400
                  /\ last'.body.message \in {Msg(INVALID_OTP), Msg(OTP_REQUIRED)}
                  /\ otpStore' = otpStore
                  /\ rateLimitStore' = rateLimitStore
                  /\ verifyotpStore' = verifyotpStore
    ]_vars

\* C29: a verification that reaches the comparison with an unexpired entry
\* is answered success if the submitted value is a string equal to the
\* stored code character for character, and "invalid" in every other
\* case, a string that differs only by surrounding characters included.
C29_ExactComparison ==
  [][VerifyStep =>
       LET e == last'.email
           x == last'.otp
       IN  (/\ ReachesLookup(e, x)
            /\ e \in DOMAIN otpStore
            /\ now <= otpStore[e].expireAt)
           => IF x.t = "string" /\ x.v = otpStore[e].otp
              THEN Answered(last', 200, TRUE, VERIFIED_MSG)
              ELSE /\ Answered(last', 400, FALSE, MISMATCH_MSG)
                   /\ otpStore' = otpStore
    ]_vars

\* the stored digits followed by a space were answered "invalid"
C29_Witness ==
  /\ last.op = "POST /verify"
  /\ Answered(last, 400, FALSE, MISMATCH_MSG)
  /\ last.email \in DOMAIN otpStore
  /\ last.otp.v # otpStore[last.email].otp
  /\ Trim(last.otp.v) = otpStore[last.email].otp

\* the transitions of the record of the key of a request through the
\* limiter mounted on path
RecordTransition(path, store, storeAfter, limit) ==
  LimiterStep(path) =>
    LET k == last'.ip
        denied == AnsweredDenied(last', Denied(last'.body.message).status)
    IN  /\ (k \notin DOMAIN store \/ now > store[k].resetTime)
           => /\ ~denied
              /\ storeAfter[k] = [attempts |-> 1,
                                  resetTime |-> now + limit.windowMs]
        /\ (/\ k \in DOMAIN store
            /\ now <= store[k].resetTime
            /\ store[k].attempts >= limit.maxAttempts)
           => denied /\ storeAfter = store
        /\ (/\ k \in DOMAIN store
            /\ now <= store[k].resetTime
            /\ store[k].attempts < limit.maxAttempts)
           => /\ ~denied
              /\ storeAfter[k] = [attempts |-> store[k].attempts + 1,
                                  resetTime |-> store[k].resetTime]

\* C30: a limiter call for a key without record, or with a record whose
\* resetTime is earlier than now, leaves the record at attempts = 1 and
\* resetTime = now + windowMs; up to and including now = resetTime the
\* window is still the old one, so a key at maxAttempts is denied and its
\* record stays as it is.
C30_RecordTransitions ==
  [][/\ RecordTransition("POST /sentotp", sentotpStore, sentotpStore',
                         SentotpLimit)
     /\ RecordTransition("POST /verifyotp", verifyotpStore, verifyotpStore',
                         VerifyotpLimit)]_vars

\* a key at maxAttempts was denied at the very time its window ends
C30_Witness ==
  /\ last.op = "POST /sentotp"
  /\ AnsweredDenied(last, 429)
  /\ sentotpStore[last.ip].attempts = SentotpLimit.maxAttempts
  /\ now = sentotpStore[last.ip].resetTime

\* a request through the limiter mounted on path is denied with the time
\* left of the window that the first allowed call of the key began
ReportsRemaining(path, store, windows, limit) ==
  (LimiterStep(path) /\ AnsweredDenied(last', 429)) =>
    LET k == last'.ip
        left == windows[k].start + limit.windowMs - now
        r == checkRateLimit(store, k, limit.maxAttempts, limit.windowMs, now)
    IN  /\ r.resetTime = windows[k].start + limit.windowMs
        /\ 0 <= left /\ left <= limit.windowMs
        /\ last'.body.message = TooManyAttempts(CeilDiv(left, 60000))
        /\ last'.body.message.minutes \in 0..CeilDiv(limit.windowMs, 60000)
        /\ (last.op = path /\ last.ip = k /\ AnsweredDenied(last, 429))
           => last'.body.message.minutes <= last.body.message.minutes

\* C31: a denied limiter call reports resetTime - now (in the message, in
\* minutes rounded up), where resetTime is the time of the first allowed
\* call of the current window plus windowMs; the value lies between 0 and
\* windowMs and does not grow as the clock advances.
C31_ReportsRemaining ==
  [][/\ ReportsRemaining("POST /sentotp", sentotpStore, admitted.sentotp,
                         SentotpLimit)
     /\ ReportsRemaining("POST /verifyotp", verifyotpStore,
                         admitted.verifyotp, VerifyotpLimit)]_vars

\* a denial in the middle of a window that began after time 0
C31_Witness ==
  /\ last.op = "POST /sentotp"
  /\ AnsweredDenied(last, 429)
  /\ admitted.sentotp[last.ip].start > 0
  /\ last.body.message.minutes \in 1..(CeilDiv(SentotpLimit.windowMs, 60000) - 1)

\* the sum of the counts a log holds at the given times
RECURSIVE SumAt(_, _)
SumAt(counts, times) ==
  IF times = {} THEN 0
  ELSE LET u == CHOOSE x \in times : TRUE
       IN  counts[u] + SumAt(counts, times \ {u})

\* the calls allowed for the key in the interval of length windowMs that
\* ends with the latest allowed call
AllowedInInterval(k, windowMs) ==
  LET latest == CHOOSE u \in DOMAIN admitLog[k] :
                  \A x \in DOMAIN admitLog[k] : x <= u
  IN  SumAt(admitLog[k],
            {u \in DOMAIN admitLog[k] : u >= latest - windowMs})

\* the time the current window of the key began
WindowStart(k) == rateLimitStore[k].resetTime - config.rateLimit.windowMs

\* C32: in every interval of length windowMs the limiter allows at most
\* 2 * maxAttempts calls of a key, and more than maxAttempts only when
\* the interval holds calls from before and from after the start of the
\* key's current window.
C32_FixedWindowBound ==
  \A k \in DOMAIN admitLog :
    LET n == AllowedInInterval(k, config.rateLimit.windowMs)
    IN  /\ n <= 2 * config.rateLimit.maxAttempts
        /\ n > config.rateLimit.maxAttempts
           => /\ \E u \in DOMAIN admitLog[k] : u < WindowStart(k)
              /\ \E u \in DOMAIN admitLog[k] : u >= WindowStart(k)

\* more than maxAttempts calls were allowed within one interval, across
\* the start of a window
C32_Witness ==
  /\ EmailA \in DOMAIN admitLog
  /\ AllowedInInterval(EmailA, config.rateLimit.windowMs)
       > config.rateLimit.maxAttempts + 1
  /\ WindowStart(EmailA) > 0

\* C33: while the window of a key is active (now <= resetTime) no call,
\* allowed or denied, changes resetTime; a denied call leaves the whole
\* limiter store as it was, attempts at maxAttempts, and the key is
\* allowed again right after the unchanged resetTime.
C33_FixedWindow ==
  [][(last'.op = "POST /send" /\ now' = now) =>
       LET k == last'.email
           limit == config.rateLimit
       IN  /\ (k \in DOMAIN rateLimitStore /\ now <= rateLimitStore[k].resetTime)
              => /\ k \in DOMAIN rateLimitStore'
                 /\ rateLimitStore'[k].resetTime = rateLimitStore[k].resetTime
           /\ SendOtpDenies
              => /\ rateLimitStore' = rateLimitStore
                 /\ rateLimitStore[k].attempts = limit.maxAttempts
                 /\ checkRateLimit(rateLimitStore', k, limit.maxAttempts,
                                   limit.windowMs,
                                   rateLimitStore[k].resetTime + 1).allowed
    ]_vars

\* a call was denied at the end of a window that began after time 0
C33_Witness ==
  /\ last.op = "POST /send"
  /\ AnsweredDenied(last, 400)
  /\ rateLimitStore[last.email].attempts = config.rateLimit.maxAttempts
  /\ WindowStart(last.email) > 0
  /\ now = rateLimitStore[last.email].resetTime

\* the records of all keys but k are the same in both stores
OthersUntouched(store, storeAfter, k) ==
  \A x \in (DOMAIN store \cup DOMAIN storeAfter) \ {k} :
    /\ x \in DOMAIN store
    /\ x \in DOMAIN storeAfter
    /\ storeAfter[x] = store[x]

\* C34: a limiter call for a key changes no record of another key; the
\* limiter mounted on /sentotp and the one mounted on /verifyotp share no
\* record, so a request on one path leaves the other limiter as it was and
\* a key is denied on a path only when its own record of that path is at
\* that path's maxAttempts.
C34_LimiterIndependence ==
  [][/\ LimiterStep("POST /sentotp")
        => /\ OthersUntouched(sentotpStore, sentotpStore', last'.ip)
           /\ verifyotpStore' = verifyotpStore
           /\ AnsweredDenied(last', 429)
              => /\ last'.ip \in DOMAIN sentotpStore
                 /\ sentotpStore[last'.ip].attempts = SentotpLimit.maxAttempts
     /\ LimiterStep("POST /verifyotp")
        => /\ OthersUntouched(verifyotpStore, verifyotpStore', last'.ip)
           /\ sentotpStore' = sentotpStore
           /\ AnsweredDenied(last', 429)
              => /\ last'.ip \in DOMAIN verifyotpStore
                 /\ verifyotpStore[last'.ip].attempts
                      = VerifyotpLimit.maxAttempts
    ]_vars

\* a client whose issuance budget is used up was let through on the
\* verification path, while another client has used one attempt of each
C34_Witness ==
  /\ last.op = "POST /verifyotp"
  /\ last.status = 404
  /\ last.ip \in DOMAIN sentotpStore
  /\ sentotpStore[last.ip].attempts = SentotpLimit.maxAttempts
  /\ \E k \in TwoClients \ {last.ip} :
       /\ k \in DOMAIN sentotpStore /\ sentotpStore[k].attempts = 1
       /\ k \in DOMAIN verifyotpStore /\ verifyotpStore[k].attempts = 1

\* C35: a request of issuance or verification for an address, whatever its
\* outcome, and the settling of its mail, create, change and delete no
\* store entry of another address; a verification for an address succeeds
\* only with the code stored for that address itself.
C35_AddressIsolation ==
  [][(now' = now /\ last'.op \in {"POST /send", "POST /verify", "mail"}) =>
       /\ OthersUntouched(otpStore, otpStore', last'.email)
       /\ (last'.op = "POST /verify" /\ last'.body.success)
          => /\ last'.email \in DOMAIN otpStore
             /\ last'.otp = Str(otpStore[last'.email].otp)
    ]_vars

\* the code stored for the first address was submitted for the second,
\* which holds another code: refused, and both entries are as they were
C35_Witness ==
  /\ last.op = "POST /verify"
  /\ last.email = EmailB
  /\ Answered(last, 400, FALSE, MISMATCH_MSG)
  /\ EmailA \in DOMAIN otpStore
  /\ EmailB \in DOMAIN otpStore
  /\ last.otp = Str(otpStore[EmailA].otp)
  /\ otpStore[EmailB].otp # otpStore[EmailA].otp

\* C36: every address that validateEmail accepts is keyed, in the store
\* and in the limiter of issuance, by its trimmed and lower-cased form: an
\* issuance writes the code and the limiter record under that form, and a
\* verification for an address finds the entry written for any accepted
\* spelling of the same address.
C36_AddressKeyPolicy ==
  [][(now' = now /\ validateEmail(last'.email).isValid) =>
       LET k == sanitizeEmail(last'.email)
       IN  /\ (last'.op = "POST /send" /\ last'.otp.t = "string")
              => /\ k \in DOMAIN otpStore'
                 /\ otpStore'[k].otp = last'.otp.v
                 /\ k \in DOMAIN rateLimitStore'
           /\ (/\ VerifyStep
               /\ \E e \in DOMAIN otpStore : sanitizeEmail(e) = k)
              => last'.body.message # Msg(NOT_FOUND_MSG)
    ]_vars

\* the configuration with otpLength set to length
WithLength(length) == [config EXCEPT !.otpLength = length]

\* req.sendOtp for the address with the sampled length and draw, then
\* req.verifyOtp at the same time with the code handed to the mail
RoundTrip ==
  LET cfg == WithLength(sample.length)
      sent == sendOtpStart(cfg, otpStore, rateLimitStore, EmailA,
                           sample.draw, now)
  IN  [sent |-> sent,
       verified |-> verifyOtp(cfg, sent.otpStore, EmailA, Str(sent.otp), now)]

WithStandaloneEntry(store, email, draw, t) ==
  MapSet(store, email, [otp |-> randomOTP(draw), expireAt |-> t + 5 * 60 * 1000])

\* C38: in the standalone server a POST /sentotp with an email stores a
\* code for it with expireAt = now + 5 minutes before the mail is sent,
\* and a POST /verifyotp carrying the code stored for the email, not later
\* than expireAt, is answered 200 with success and deletes the entry.
C38_StandaloneIssueAndVerify ==
  [][now' = now =>
       /\ (last'.op = "index.js POST /sentotp" /\ ~Falsy(last'.email))
          => /\ last'.email \in DOMAIN otpStore'
             /\ otpStore'[last'.email].expireAt = now + 5 * 60 * 1000
             /\ Len(pending') = Len(pending) + 1
       /\ last'.op = "index.js POST /verifyotp"
          => \A draw \in RandomOTPDraws :
               LET store == WithStandaloneEntry(otpStore, EmailA, draw, now)
                   r == standaloneVerifyotp(
                          Request(JsonBody(EmailA, Str(randomOTP(draw)))),
                          Response, store, now)
               IN  /\ r.status = 200
                   /\ r.body.success
                   /\ EmailA \notin DOMAIN r.otpStore
    ]_vars

====
